---- MODULE Spec2Model ----
(***************************************************************************)
(* Model of fluid/DeepASR/data_utils/data_reader.py: the DataReader        *)
(* pipeline.  A feeder thread numbers sample descriptors and puts them on  *)
(* a bounded queue, process_num workers decode them and put the decoded    *)
(* samples on a second bounded queue in descriptor order (spin barrier on  *)
(* out_order[0]), the fan-in of _sample_generator counts EpochEndSignals,  *)
(* batch_assembling_task groups the sample stream into batches and the     *)
(* consumer loop of batch_iterator yields them.                            *)
(***************************************************************************)
EXTENDS Integers, Sequences, FiniteSets, TLC

(* ------------------------------ bounds -------------------------------- *)
\* Number of sample descriptors in the data set.
NumSamples == 2
\* Number of blocks listed by the manifest files.
NumBlocks == 2
\* Largest worker count (process_num) tried.
MaxProc == 2
\* Largest batch_size / minimum_batch_size passed to batch_iterator.
MaxBatch == 2

\* Largest number of blocks, and of shuffling calls, tried on
\* generate_bucket_list alone.
MaxBlocks == 3
MaxShuffles == 2

\* Capacities of the three queues (constructor arguments of DataReader).
sample_info_buffer_size == 1
sample_buffer_size == 1
batch_buffer_size == 1

\* Values of drop_frame_len tried: everything dropped, some dropped, none.
DropFrameLens == {0, 2, 3}
\* Values of shuffle_block_num tried.
ShuffleBlockNums == {1, 2}

Samples == 1..NumSamples
Procs == 1..MaxProc

(* ------------------------------ data set ------------------------------ *)
\* SampleInfo: the descriptor of sample s.  Only the fields the pipeline
\* branches on are kept: the identity of the byte ranges (id) and
\* feature_frame_num.
FrameNum(s) == 1 + (s % 3)
SampleInfo(s) == [id |-> s, feature_frame_num |-> FrameNum(s)]

\* The block whose description files list sample s.
BlockOf(s) == ((s - 1) % NumBlocks) + 1

(* ------------------------------ helpers ------------------------------- *)
Range(q) == {q[i] : i \in 1..Len(q)}
Last(q) == q[Len(q)]

\* Every reordering of the sequence q: the outcomes of random.shuffle.
Shuffles(q) ==
    LET n == Len(q)
        P == {p \in [1..n -> 1..n] : \A i, j \in 1..n : p[i] = p[j] => i = j}
    IN  {[i \in 1..n |-> q[p[i]]] : p \in P}

\* The descriptors of one block, in description-file order.
RECURSIVE BlockSamplesFrom(_, _)
BlockSamplesFrom(b, s) ==
    IF s > NumSamples THEN <<>>
    ELSE (IF BlockOf(s) = b THEN <<SampleInfo(s)>> ELSE <<>>)
         \o BlockSamplesFrom(b, s + 1)

\* SampleInfoBucket.generate_sample_info_list: the descriptors of the
\* bucket's blocks, block after block.
RECURSIVE generate_sample_info_list(_)
generate_sample_info_list(bucket) ==
    IF bucket = <<>> THEN <<>>
    ELSE BlockSamplesFrom(Head(bucket), 1)
         \o generate_sample_info_list(Tail(bucket))

\* A bucket loop that stops before a last slice of fewer than
\* shuffle_block_num blocks.
RECURSIVE BucketsFrom_FullOnly(_, _, _)
BucketsFrom_FullOnly(blocks, i, n) ==
    IF i + n - 1 > Len(blocks) THEN <<>>
    ELSE <<SubSeq(blocks, i, i + n - 1)>> \o BucketsFrom_FullOnly(blocks, i + n, n)

\* The bucket loop of generate_bucket_list: slices of shuffle_block_num
\* consecutive blocks, xrange(0, len, shuffle_block_num).
RECURSIVE BucketsFrom(_, _, _)
BucketsFrom(blocks, i, n) ==
    IF i > Len(blocks) THEN <<>>
    ELSE LET hi == IF i + n - 1 > Len(blocks) THEN Len(blocks) ELSE i + n - 1
         IN  <<SubSeq(blocks, i, hi)>> \o BucketsFrom(blocks, i + n, n)

\* The manifest order of the blocks.
ManifestBlocks == [i \in 1..NumBlocks |-> i]

\* The block list read from list files that name k blocks.
ManifestOf(k) == [i \in 1..k |-> i]

EpochEndSignal == [kind |-> "end", sample |-> 0, order_id |-> 0]
InfoItem(si, k) == [kind |-> "info", sample |-> si, order_id |-> k]
NoIns == [kind |-> "none", sample |-> 0, order_id |-> 0]

\* sample_data as put on the sample queue: shape0 is sample_data[0].shape[0].
SampleEnd == [kind |-> "end", id |-> 0, shape0 |-> 0]
SampleData(si) == [kind |-> "sample", id |-> si.id, shape0 |-> si.feature_frame_num]

BatchEnd == [kind |-> "end", samples |-> <<>>, feature_rows |-> 0,
             label_rows |-> 0, lod |-> 0]
NoBatch == [kind |-> "none", samples |-> <<>>, feature_rows |-> 0,
            label_rows |-> 0, lod |-> 0]

\* A bounded queue that takes one item more than its maxsize.
HasRoom_OneOver(q, maxsize) == Len(q) <= maxsize

\* Queue(maxsize).put(item) goes through when the queue holds fewer than
\* maxsize items, and blocks otherwise.
HasRoom(q, maxsize) == Len(q) < maxsize

VARIABLES
    \* DataReader fields
    process_num, drop_frame_len, shuffle_block_num,
    block_info_list, bucket_list, block_shuffles, order_id,
    \* batch_iterator
    batch_size, minimum_batch_size, batch_queue, cons_pc, yielded,
    \* _sample_generator
    sample_info_queue, sample_queue, out_order, finished_process_num, stream,
    \* ordered_feeding_task
    feed_pc, feed_bucket, sample_info_list, feed_idx, feed_end, fed,
    \* the feeding thread of an abandoned batch_iterator call
    stale_pc, stale_left,
    \* ordered_processing_task, one per worker
    w_pc, w_ins, w_tmp, dropped,
    \* batch_assembling_task
    asm_pc, batch_samples, lod, lists, asm_batch

readerVars == <<process_num, drop_frame_len, shuffle_block_num,
                block_info_list, bucket_list, block_shuffles>>
iterVars == <<batch_size, minimum_batch_size, batch_queue, cons_pc, yielded>>
genVars == <<sample_info_queue, sample_queue, out_order, finished_process_num, stream>>
staleVars == <<stale_pc, stale_left>>
feedVars == <<feed_pc, feed_bucket, sample_info_list, feed_idx, feed_end, fed, order_id,
              staleVars>>
workVars == <<w_pc, w_ins, w_tmp, dropped>>
asmVars == <<asm_pc, batch_samples, lod, lists, asm_batch>>
vars == <<readerVars, iterVars, genVars, feedVars, workVars, asmVars>>


(* --------------------------- construction ----------------------------- *)
\* generate_bucket_list(is_shuffle) on block list `blocks`: the possible
\* results, as [blocks, buckets, shuffled].  shuffled counts the executions
\* of self._rng.shuffle(self._block_info_list).
generate_bucket_list(blocks, is_shuffle, n) ==
    {[blocks |-> b, buckets |-> BucketsFrom(b, 1, n),
      shuffled |-> IF is_shuffle THEN 1 ELSE 0] :
        b \in IF is_shuffle THEN Shuffles(blocks) ELSE {blocks}}

\* No call of batch_iterator has been made: no queue, thread or worker
\* exists (line 162 sets self._order_id).
IdlePipeline ==
    /\ order_id = 0
    /\ batch_size = 0
    /\ minimum_batch_size = 0
    /\ batch_queue = <<>>
    /\ cons_pc = "idle"
    /\ yielded = <<>>
    /\ sample_info_queue = <<>>
    /\ sample_queue = <<>>
    /\ out_order = 0
    /\ finished_process_num = 0
    /\ stream = <<>>
    /\ feed_pc = "off"
    /\ feed_bucket = 1
    /\ sample_info_list = <<>>
    /\ feed_idx = 1
    /\ feed_end = 0
    /\ fed = <<>>
    /\ stale_pc = "off"
    /\ stale_left = 0
    /\ w_pc = [w \in Procs |-> "off"]
    /\ w_ins = [w \in Procs |-> NoIns]
    /\ w_tmp = [w \in Procs |-> 0]
    /\ dropped = 0
    /\ asm_pc = "off"
    /\ batch_samples = <<>>
    /\ lod = 1
    /\ lists = <<<<0>>>>
    /\ asm_batch = NoBatch

\* The state after DataReader.__init__; no epoch has been started.
Init ==
    /\ process_num \in 1..MaxProc
    /\ drop_frame_len \in DropFrameLens
    /\ shuffle_block_num \in ShuffleBlockNums
    /\ \E r \in generate_bucket_list(ManifestBlocks, TRUE, shuffle_block_num) :
          /\ block_info_list = r.blocks
          /\ bucket_list = r.buckets
          /\ block_shuffles = r.shuffled
    /\ IdlePipeline

(* ----------------------- generate_bucket_list alone ------------------- *)
\* __init__ at line 184: the list files, naming up to MaxBlocks blocks, have
\* been read into self._block_info_list and self._bucket_list is still None.
BucketInit ==
    /\ process_num \in 1..MaxProc
    /\ drop_frame_len \in DropFrameLens
    /\ shuffle_block_num \in ShuffleBlockNums
    /\ block_info_list \in {ManifestOf(k) : k \in 0..MaxBlocks}
    /\ bucket_list = <<>>
    /\ block_shuffles = 0
    /\ IdlePipeline

\* generate_bucket_list(is_shuffle), from __init__ or called again by the
\* user of the reader.
GenerateBucketList(is_shuffle) ==
    /\ is_shuffle => block_shuffles < MaxShuffles
    /\ \E r \in generate_bucket_list(block_info_list, is_shuffle, shuffle_block_num) :
          /\ block_info_list' = r.blocks
          /\ bucket_list' = r.buckets
          /\ block_shuffles' = block_shuffles + r.shuffled
    /\ UNCHANGED <<process_num, drop_frame_len, shuffle_block_num>>
    /\ UNCHANGED <<iterVars, genVars, feedVars, workVars, asmVars>>

Regroup == GenerateBucketList(FALSE)
Reshuffle == GenerateBucketList(TRUE)

BucketNext == Regroup \/ Reshuffle

BucketSpec == BucketInit /\ [][BucketNext]_vars

(* ---------------------------- batch_iterator -------------------------- *)
\* A call of batch_iterator(bs, mbs): the batch queue is created, the
\* assembling thread starts and enters _sample_generator, which creates the
\* two queues, resets self._order_id and out_order, and starts the feeding
\* thread and the workers.  Nothing on this path calls generate_bucket_list:
\* block_info_list and bucket_list stay as __init__ left them.
StartEpoch(bs, mbs) ==
    /\ batch_size' = bs
    /\ minimum_batch_size' = mbs
    /\ batch_queue' = <<>>
    /\ cons_pc' = "running"
    /\ yielded' = <<>>
    /\ sample_info_queue' = <<>>
    /\ sample_queue' = <<>>
    /\ order_id' = 0
    /\ out_order' = 0
    /\ finished_process_num' = 0
    /\ stream' = <<>>
    /\ feed_pc' = "bucket"
    /\ feed_bucket' = 1
    /\ sample_info_list' = <<>>
    /\ feed_idx' = 1
    /\ feed_end' = 0
    /\ fed' = <<>>
    /\ w_pc' = [w \in Procs |-> IF w <= process_num THEN "get" ELSE "off"]
    /\ w_ins' = [w \in Procs |-> NoIns]
    /\ w_tmp' = [w \in Procs |-> 0]
    /\ dropped' = 0
    /\ asm_pc' = "iter"
    /\ batch_samples' = <<>>
    /\ lod' = 1
    /\ lists' = <<<<0>>>>
    /\ asm_batch' = NoBatch
    /\ UNCHANGED readerVars

\* batch_iterator(bs, mbs) called on a new reader, or after the consumer loop
\* of the previous call has ended.
BatchIteratorCall(bs, mbs) ==
    /\ cons_pc \in {"idle", "done"}
    /\ StartEpoch(bs, mbs)
    /\ UNCHANGED staleVars

\* The consumer loop: batch_queue.get_nowait(); an EpochEndSignal breaks the
\* loop (and the assembling thread, which has returned, is joined), anything
\* else is yielded to the caller.
ConsumerGet ==
    /\ cons_pc = "running"
    /\ batch_queue # <<>>
    /\ batch_queue' = Tail(batch_queue)
    /\ IF Head(batch_queue).kind = "end"
         THEN cons_pc' = "done" /\ yielded' = yielded
         ELSE cons_pc' = cons_pc /\ yielded' = Append(yielded, Head(batch_queue))
    /\ UNCHANGED <<batch_size, minimum_batch_size>>
    /\ UNCHANGED <<readerVars, genVars, feedVars, workVars, asmVars>>


(* ------------------------ ordered_feeding_task ------------------------ *)
\* Where the feeder goes once position idx of the current bucket's list is
\* behind it: the next descriptor, the next bucket, or the sentinel loop.
FeederAfter(b, list, idx) ==
    IF idx <= Len(list) THEN [pc |-> "put", bucket |-> b]
    ELSE IF b < Len(bucket_list) THEN [pc |-> "bucket", bucket |-> b + 1]
    ELSE [pc |-> "end", bucket |-> b + 1]

\* `for sample_info_bucket in self._bucket_list`: expand the bucket and
\* shuffle its descriptor list.
FeederExpand ==
    /\ feed_pc = "bucket"
    /\ feed_bucket <= Len(bucket_list)
    /\ \E l \in Shuffles(generate_sample_info_list(bucket_list[feed_bucket])) :
          /\ sample_info_list' = l
          /\ feed_idx' = 1
          /\ feed_pc' = FeederAfter(feed_bucket, l, 1).pc
          /\ feed_bucket' = FeederAfter(feed_bucket, l, 1).bucket
    /\ UNCHANGED <<feed_end, fed, order_id, staleVars>>
    /\ UNCHANGED <<readerVars, iterVars, genVars, workVars, asmVars>>

\* generate_sample_info_list raises (a description file cannot be opened or
\* is malformed): the feeding task ends without its sentinels.
FeederRaise ==
    /\ feed_pc = "bucket"
    /\ feed_bucket <= Len(bucket_list)
    /\ feed_pc' = "dead"
    /\ UNCHANGED <<feed_bucket, sample_info_list, feed_idx, feed_end, fed, order_id>>
    /\ UNCHANGED staleVars
    /\ UNCHANGED <<readerVars, iterVars, genVars, workVars, asmVars>>

\* sample_info_queue.put((sample_info, self._order_id)), blocking while full.
FeederPut ==
    /\ feed_pc = "put"
    /\ HasRoom(sample_info_queue, sample_info_buffer_size)
    /\ sample_info_queue' =
          Append(sample_info_queue,
                 InfoItem(sample_info_list[feed_idx], order_id))
    /\ fed' = Append(fed, sample_info_list[feed_idx])
    /\ feed_pc' = "incr"
    /\ UNCHANGED <<feed_bucket, sample_info_list, feed_idx, feed_end, order_id>>
    /\ UNCHANGED staleVars
    /\ UNCHANGED <<sample_queue, out_order, finished_process_num, stream>>
    /\ UNCHANGED <<readerVars, iterVars, workVars, asmVars>>

\* A feeder that leaves the counter as it is.
NextOrderId_Stuck(k) == k

\* The value `self._order_id += 1` stores.
NextOrderId(k) == k + 1

\* self._order_id += 1, then the next turn of the loops.
FeederIncr ==
    /\ feed_pc = "incr"
    /\ order_id' = NextOrderId(order_id)
    /\ feed_idx' = feed_idx + 1
    /\ feed_pc' = FeederAfter(feed_bucket, sample_info_list, feed_idx + 1).pc
    /\ feed_bucket' = FeederAfter(feed_bucket, sample_info_list, feed_idx + 1).bucket
    /\ UNCHANGED <<sample_info_list, feed_end, fed, staleVars>>
    /\ UNCHANGED <<readerVars, iterVars, genVars, workVars, asmVars>>

\* A feeder that puts one EpochEndSignal too few.
FeederSentinels_Short == process_num - 1

\* A feeder that puts one EpochEndSignal too many.
FeederSentinels_Extra == process_num + 1

\* The number of EpochEndSignals the feeder puts.
FeederSentinels == process_num

\* `for i in xrange(self._process_num): sample_info_queue.put(EpochEndSignal())`
FeederPutEnd ==
    /\ feed_pc = "end"
    /\ HasRoom(sample_info_queue, sample_info_buffer_size)
    /\ sample_info_queue' = Append(sample_info_queue, EpochEndSignal)
    /\ feed_end' = feed_end + 1
    /\ feed_pc' = IF feed_end + 1 >= FeederSentinels THEN "done" ELSE "end"
    /\ UNCHANGED <<feed_bucket, sample_info_list, feed_idx, fed, order_id>>
    /\ UNCHANGED staleVars
    /\ UNCHANGED <<sample_queue, out_order, finished_process_num, stream>>
    /\ UNCHANGED <<readerVars, iterVars, workVars, asmVars>>


(* ---------------------- ordered_processing_task ----------------------- *)
\* sample_info_queue.get() returning a descriptor that decodes: both byte
\* reads and both length assertions pass, the transformers run, and the
\* worker reaches the barrier holding its sample.  A sentinel ends the loop.
WorkerGet(w) ==
    /\ w_pc[w] = "get"
    /\ sample_info_queue # <<>>
    /\ sample_info_queue' = Tail(sample_info_queue)
    /\ IF Head(sample_info_queue).kind = "end"
         THEN /\ w_pc' = [w_pc EXCEPT ![w] = "put_end"]
              /\ w_ins' = [w_ins EXCEPT ![w] = NoIns]
         ELSE /\ w_pc' = [w_pc EXCEPT ![w] = "spin"]
              /\ w_ins' = [w_ins EXCEPT ![w] = Head(sample_info_queue)]
    /\ UNCHANGED <<w_tmp, dropped>>
    /\ UNCHANGED <<sample_queue, out_order, finished_process_num, stream>>
    /\ UNCHANGED <<readerVars, iterVars, feedVars, asmVars>>

\* A worker that puts its EpochEndSignal on the way out of an exception.
RaiseExit_Signals == "put_end"

\* Where an exception in the loop body leaves the worker: the exception
\* leaves ordered_processing_task, line 282 is not reached.
RaiseExit == "dead"

\* sample_info_queue.get() returning a descriptor whose unit of work raises
\* (open() fails, a byte-length assertion fails, a transformer raises): the
\* task ends holding the descriptor.
WorkerRaise(w) ==
    /\ w_pc[w] = "get"
    /\ sample_info_queue # <<>>
    /\ Head(sample_info_queue).kind = "info"
    /\ sample_info_queue' = Tail(sample_info_queue)
    /\ w_pc' = [w_pc EXCEPT ![w] = RaiseExit]
    /\ w_ins' = [w_ins EXCEPT ![w] = Head(sample_info_queue)]
    /\ UNCHANGED <<w_tmp, dropped>>
    /\ UNCHANGED <<sample_queue, out_order, finished_process_num, stream>>
    /\ UNCHANGED <<readerVars, iterVars, feedVars, asmVars>>

\* A barrier that lets a worker through when the counter has not passed it.
BarrierOpen_NotPassed(oid, counter) == oid >= counter

\* A barrier that also lets the next sequence number through.
BarrierOpen_OneAhead(oid, counter) == oid <= counter + 1

\* The exit test of `while order_id != out_order[0]: time.sleep(0.001)`.
BarrierOpen(oid, counter) == oid = counter

\* The spin loop is left once out_order[0] is read equal to order_id.
WorkerSpinExit(w) ==
    /\ w_pc[w] = "spin"
    /\ BarrierOpen(w_ins[w].order_id, out_order)
    /\ w_pc' = [w_pc EXCEPT ![w] = "emit"]
    /\ UNCHANGED <<w_ins, w_tmp, dropped>>
    /\ UNCHANGED <<readerVars, iterVars, genVars, feedVars, asmVars>>

\* A drop test that also drops a sample of exactly drop_frame_len frames.
KeepSample_Strict(dfl, sample_data) == dfl > sample_data.shape0

\* `if self._drop_frame_len >= sample_data[0].shape[0]`
KeepSample(dfl, sample_data) == dfl >= sample_data.shape0

\* A worker that goes back to sample_info_queue.get() after a drop without
\* advancing the counter.
AfterEmit_DropSkips(kept) == IF kept THEN "incr" ELSE "get"

\* The statement after the drop test, whether or not the sample was put:
\* `out_order[0] += 1`.
AfterEmit(kept) == "incr"

\* The drop test, then sample_queue.put(sample_data), blocking while full.
WorkerEmit(w) ==
    /\ w_pc[w] = "emit"
    /\ IF KeepSample(drop_frame_len, SampleData(w_ins[w].sample))
         THEN /\ HasRoom(sample_queue, sample_buffer_size)
              /\ sample_queue' = Append(sample_queue, SampleData(w_ins[w].sample))
              /\ dropped' = dropped
         ELSE /\ sample_queue' = sample_queue
              /\ dropped' = dropped + 1
    /\ w_pc' = [w_pc EXCEPT ![w] =
                   AfterEmit(KeepSample(drop_frame_len, SampleData(w_ins[w].sample)))]
    /\ UNCHANGED <<w_ins, w_tmp>>
    /\ UNCHANGED <<sample_info_queue, out_order, finished_process_num, stream>>
    /\ UNCHANGED <<readerVars, iterVars, feedVars, asmVars>>

\* `out_order[0] += 1` on the manager list, first half: out_order[0] is read.
WorkerIncrRead(w) ==
    /\ w_pc[w] = "incr"
    /\ w_tmp' = [w_tmp EXCEPT ![w] = out_order]
    /\ w_pc' = [w_pc EXCEPT ![w] = "write"]
    /\ UNCHANGED <<w_ins, dropped>>
    /\ UNCHANGED <<readerVars, iterVars, genVars, feedVars, asmVars>>

\* Second half: the value read plus one is stored, and the loop goes back to
\* sample_info_queue.get().
WorkerIncrWrite(w) ==
    /\ w_pc[w] = "write"
    /\ out_order' = w_tmp[w] + 1
    /\ w_pc' = [w_pc EXCEPT ![w] = "get"]
    /\ w_ins' = [w_ins EXCEPT ![w] = NoIns]
    /\ w_tmp' = [w_tmp EXCEPT ![w] = 0]
    /\ dropped' = dropped
    /\ UNCHANGED <<sample_info_queue, sample_queue, finished_process_num, stream>>
    /\ UNCHANGED <<readerVars, iterVars, feedVars, asmVars>>

\* sample_queue.put(EpochEndSignal()) after the loop; the task returns.
WorkerPutEnd(w) ==
    /\ w_pc[w] = "put_end"
    /\ HasRoom(sample_queue, sample_buffer_size)
    /\ sample_queue' = Append(sample_queue, SampleEnd)
    /\ w_pc' = [w_pc EXCEPT ![w] = "done"]
    /\ UNCHANGED <<w_ins, w_tmp, dropped>>
    /\ UNCHANGED <<sample_info_queue, out_order, finished_process_num, stream>>
    /\ UNCHANGED <<readerVars, iterVars, feedVars, asmVars>>


(* ------------- _sample_generator fan-in, batch_assembling_task -------- *)
\* The copy loop of batch_to_ndarray: sample k is assigned to rows
\* start .. start + frame_num of a buffer of `rows` rows.  numpy clips the
\* slice to the buffer and raises unless the clipped slice has frame_num
\* rows (a one-row sample broadcasts).
RECURSIVE CopyFits(_, _, _)
CopyFits(samples, start, rows) ==
    IF samples = <<>> THEN TRUE
    ELSE LET n == Head(samples).shape0
         IN  /\ (start + n <= rows \/ n = 1)
             /\ CopyFits(Tail(samples), start + n, rows)

\* batch_to_ndarray(batch_samples, lod): ok is FALSE when it raises (the
\* assertion on an empty batch, or a copy that does not fit); otherwise the
\* row counts of batch_feature and batch_label, both np.zeros((lod[-1], .)).
batch_to_ndarray(samples, lodlist) ==
    [ok |-> Len(samples) > 0 /\ CopyFits(samples, 0, Last(lodlist)),
     feature_rows |-> Last(lodlist),
     label_rows |-> Last(lodlist)]

\* The tuple (batch_feature, batch_label, lod) put on the batch queue; lod
\* is the list object itself (a reference into `lists`).
MakeBatch(samples, lodlist, ref) ==
    [kind |-> "batch", samples |-> samples,
     feature_rows |-> batch_to_ndarray(samples, lodlist).feature_rows,
     label_rows |-> batch_to_ndarray(samples, lodlist).label_rows,
     lod |-> ref]

\* An assembler that puts each new sample in front of the pending ones.
BatchAppend_Front(pending, sample) == <<sample>> \o pending

\* `batch_samples.append(sample)`
BatchAppend(pending, sample) == Append(pending, sample)

\* `lod.append(lod[-1] + sample[0].shape[0])`
LodAppend(lodlist, sample) == Append(lodlist, Last(lodlist) + sample.shape0)

\* A test that lets the pending list grow one sample past batch_size.
BatchFull_OneMore(n, bs) == n = bs + 1

\* `if len(batch_samples) == batch_size`
BatchFull(n, bs) == n = bs

\* A fan-in that stops at the first EpochEndSignal.
StreamOpen_FirstSignal(finished, n) == finished < 1

\* `while finished_process_num < self._process_num`: the loop goes on.
StreamOpen(finished, n) == finished < n

\* One turn of the fan-in loop and of the assembler loop it feeds:
\* sample_queue.get(); an EpochEndSignal is counted (and ends the stream once
\* there is one per worker), a sample is yielded, appended to batch_samples
\* and lod, and a full batch is converted.
FanInGet ==
    /\ asm_pc = "iter"
    /\ sample_queue # <<>>
    /\ sample_queue' = Tail(sample_queue)
    /\ IF Head(sample_queue).kind = "end"
         THEN /\ finished_process_num' = finished_process_num + 1
              /\ asm_pc' = IF StreamOpen(finished_process_num + 1, process_num)
                             THEN "iter" ELSE "join"
              /\ UNCHANGED <<stream, batch_samples, lod, lists, asm_batch>>
         ELSE LET sample == Head(sample_queue)
                  bs == BatchAppend(batch_samples, sample)
                  ls == [lists EXCEPT ![lod] = LodAppend(lists[lod], sample)]
              IN  /\ finished_process_num' = finished_process_num
                  /\ stream' = Append(stream, sample)
                  /\ batch_samples' = bs
                  /\ lists' = ls
                  /\ lod' = lod
                  /\ IF BatchFull(Len(bs), batch_size)
                       THEN IF batch_to_ndarray(bs, ls[lod]).ok
                              THEN /\ asm_pc' = "put"
                                   /\ asm_batch' = MakeBatch(bs, ls[lod], lod)
                              ELSE /\ asm_pc' = "dead_iter"
                                   /\ asm_batch' = asm_batch
                       ELSE /\ asm_pc' = "iter"
                            /\ asm_batch' = asm_batch
    /\ UNCHANGED <<sample_info_queue, out_order>>
    /\ UNCHANGED <<readerVars, iterVars, feedVars, workVars>>

\* A reset that empties the list in place (`del lod[:]; lod.append(0)`).
LodReset_InPlace(ls, ref) == [lists |-> [ls EXCEPT ![ref] = <<0>>], lod |-> ref]

\* `lod = [0]` after a batch is put: the name is bound to a new list.
LodReset(ls, ref) == [lists |-> Append(ls, <<0>>), lod |-> Len(ls) + 1]

\* batch_queue.put((batch_feature, batch_label, lod)) inside the loop,
\* blocking while full, then `batch_samples = []` and `lod = [0]`.
AsmPut ==
    /\ asm_pc = "put"
    /\ HasRoom(batch_queue, batch_buffer_size)
    /\ batch_queue' = Append(batch_queue, asm_batch)
    /\ batch_samples' = <<>>
    /\ lists' = LodReset(lists, lod).lists
    /\ lod' = LodReset(lists, lod).lod
    /\ asm_batch' = NoBatch
    /\ asm_pc' = "iter"
    /\ UNCHANGED <<batch_size, minimum_batch_size, cons_pc, yielded>>
    /\ UNCHANGED <<readerVars, genVars, feedVars, workVars>>

\* `if len(batch_samples) >= minimum_batch_size`
FlushWanted(n, mbs) == n >= mbs

\* The stream has ended: the generator joins the feeding thread and the
\* workers and returns; the assembler decides on the remainder.
AsmFlush ==
    /\ asm_pc = "join"
    /\ feed_pc \in {"done", "dead"}
    /\ \A w \in Procs : w_pc[w] \in {"off", "done", "dead"}
    /\ IF FlushWanted(Len(batch_samples), minimum_batch_size)
         THEN IF batch_to_ndarray(batch_samples, lists[lod]).ok
                THEN /\ asm_pc' = "put_last"
                     /\ asm_batch' = MakeBatch(batch_samples, lists[lod], lod)
                ELSE /\ asm_pc' = "dead"
                     /\ asm_batch' = asm_batch
         ELSE /\ asm_pc' = "put_end"
              /\ asm_batch' = asm_batch
    /\ UNCHANGED <<batch_samples, lod, lists>>
    /\ UNCHANGED <<readerVars, iterVars, genVars, feedVars, workVars>>

\* batch_queue.put of the final batch, blocking while full.
AsmPutLast ==
    /\ asm_pc = "put_last"
    /\ HasRoom(batch_queue, batch_buffer_size)
    /\ batch_queue' = Append(batch_queue, asm_batch)
    /\ asm_batch' = NoBatch
    /\ asm_pc' = "put_end"
    /\ UNCHANGED <<batch_samples, lod, lists>>
    /\ UNCHANGED <<batch_size, minimum_batch_size, cons_pc, yielded>>
    /\ UNCHANGED <<readerVars, genVars, feedVars, workVars>>

\* batch_queue.put(EpochEndSignal()); the task returns.
AsmPutEnd ==
    /\ asm_pc = "put_end"
    /\ HasRoom(batch_queue, batch_buffer_size)
    /\ batch_queue' = Append(batch_queue, BatchEnd)
    /\ asm_pc' = "done"
    /\ UNCHANGED <<batch_samples, lod, lists, asm_batch>>
    /\ UNCHANGED <<batch_size, minimum_batch_size, cons_pc, yielded>>
    /\ UNCHANGED <<readerVars, genVars, feedVars, workVars>>

(* --------------------------- specification ---------------------------- *)
Feeder == FeederExpand \/ FeederPut \/ FeederIncr \/ FeederPutEnd

Worker(w) ==
    \/ WorkerGet(w)
    \/ WorkerSpinExit(w)
    \/ WorkerEmit(w)
    \/ WorkerIncrRead(w)
    \/ WorkerIncrWrite(w)
    \/ WorkerPutEnd(w)

Assembler == FanInGet \/ AsmPut \/ AsmFlush \/ AsmPutLast \/ AsmPutEnd

Caller == \E bs \in 1..MaxBatch, mbs \in 0..MaxBatch : BatchIteratorCall(bs, mbs)

\* The pipeline when every unit of work succeeds.
NextOK ==
    \/ Caller
    \/ ConsumerGet
    \/ Feeder
    \/ \E w \in Procs : Worker(w)
    \/ Assembler

\* The pipeline, with the feeder's and the workers' failures.
Next ==
    \/ NextOK
    \/ FeederRaise
    \/ \E w \in Procs : WorkerRaise(w)

Spec == Init /\ [][Next]_vars

\* Epochs in which the assembler cannot fail either: with a
\* minimum_batch_size of 1 an empty remainder is never converted.
LiveCaller == BatchIteratorCall(MaxBatch, 1)

NextLive ==
    \/ LiveCaller
    \/ ConsumerGet
    \/ Feeder
    \/ \E w \in Procs : Worker(w)
    \/ Assembler

\* The pipeline when no task fails, every thread and process being scheduled
\* again and again; the caller is free never to start another epoch.
LiveSpec ==
    /\ Init
    /\ [][NextLive]_vars
    /\ WF_vars(Feeder)
    /\ \A w \in Procs : WF_vars(Worker(w))
    /\ WF_vars(Assembler)
    /\ WF_vars(ConsumerGet)


(* ------------------- an abandoned call of batch_iterator -------------- *)
\* How many more descriptors the feeding thread of the running call can
\* surely put if the call is abandoned now: those it has not put yet, as far
\* as its descriptor queue has room for them without any worker taking one.
SurePuts ==
    LET rest == NumSamples - Len(fed)
        room == sample_info_buffer_size - Len(sample_info_queue)
    IN  IF rest < room THEN rest ELSE room

\* The caller drops the generator of the running call before its end (it
\* leaves its `for` loop early, the generator being suspended at the yield of
\* line 360 after some batch) and calls batch_iterator(bs, mbs) again on the
\* same reader.  The daemon threads of the dropped call are not stopped:
\* its feeding thread goes on in its loop (lines 213-215) on the queue of the
\* dropped call, reading and writing the same self._order_id that line 205 of
\* the new call has just set to 0.
Abandon(bs, mbs) ==
    /\ cons_pc = "running"
    /\ yielded # <<>>
    /\ stale_pc = "off"
    /\ StartEpoch(bs, mbs)
    /\ stale_left' = IF feed_pc \in {"bucket", "put", "incr"} THEN SurePuts ELSE 0
    /\ stale_pc' = IF feed_pc = "incr" THEN "incr"
                    ELSE IF feed_pc \in {"bucket", "put"} /\ SurePuts > 0 THEN "put"
                    ELSE "off"

\* The feeding thread of the dropped call puts a descriptor on its own queue.
StalePut ==
    /\ stale_pc = "put"
    /\ stale_left > 0
    /\ stale_pc' = "incr"
    /\ stale_left' = stale_left - 1
    /\ UNCHANGED <<feed_pc, feed_bucket, sample_info_list, feed_idx, feed_end, fed, order_id>>
    /\ UNCHANGED <<readerVars, iterVars, genVars, workVars, asmVars>>

\* ... and executes its `self._order_id += 1`.
StaleIncr ==
    /\ stale_pc = "incr"
    /\ order_id' = NextOrderId(order_id)
    /\ stale_pc' = IF stale_left > 0 THEN "put" ELSE "off"
    /\ UNCHANGED <<feed_pc, feed_bucket, sample_info_list, feed_idx, feed_end, fed, stale_left>>
    /\ UNCHANGED <<readerVars, iterVars, genVars, workVars, asmVars>>

StaleFeeder == StalePut \/ StaleIncr

\* The pipeline when no task fails and the caller may abandon a call.
OverlapNext ==
    \/ \E bs \in 1..MaxBatch : BatchIteratorCall(bs, 1)
    \/ \E bs \in 1..MaxBatch : Abandon(bs, 1)
    \/ ConsumerGet
    \/ Feeder
    \/ StaleFeeder
    \/ \E w \in Procs : Worker(w)
    \/ Assembler

OverlapSpec == Init /\ [][OverlapNext]_vars


(* ------------------------- observed sequences ------------------------- *)
Ids(q) == [i \in 1..Len(q) |-> q[i].id]

RECURSIVE BatchSamples(_)
BatchSamples(bq) ==
    IF bq = <<>> THEN <<>>
    ELSE (IF Head(bq).kind = "batch" THEN Head(bq).samples ELSE <<>>)
         \o BatchSamples(Tail(bq))

IsBatch(b) == b.kind = "batch"
IsSample(s) == s.kind = "sample"

\* The samples of the batches batch_iterator has yielded, concatenated.
YieldedIds == Ids(BatchSamples(yielded))

\* A descriptor the drop policy lets through: its frame count does not
\* exceed drop_frame_len.
Survives(si) == si.feature_frame_num <= drop_frame_len

\* The feeder's ordering so far with the dropped samples removed.
SurvivorIds(f) == Ids(SelectSeq(f, Survives))

IsPrefix(p, q) == Len(p) <= Len(q) /\ p = SubSeq(q, 1, Len(p))

\* The descriptors fed for bucket_list[1..b] are, bucket after bucket, a
\* reordering of each bucket's descriptor list.
RECURSIVE FedByBuckets(_, _)
FedByBuckets(f, buckets) ==
    IF buckets = <<>> THEN f = <<>>
    ELSE LET l == generate_sample_info_list(Head(buckets))
         IN  /\ Len(f) >= Len(l)
             /\ Range(SubSeq(f, 1, Len(l))) = Range(l)
             /\ FedByBuckets(SubSeq(f, Len(l) + 1, Len(f)), Tail(buckets))

\* The consumer loop has seen the EpochEndSignal of the epoch.
EpochEnded == cons_pc = "done"

\* Number of survivors the assembler emits in batches: all of them, less a
\* last group smaller than both batch_size and minimum_batch_size.
BatchedCount(n) ==
    IF n % batch_size >= minimum_batch_size THEN n ELSE n - (n % batch_size)

(* ------------------------------- C1 ----------------------------------- *)
\* C1 as stated: once the epoch has ended, the samples of the yielded
\* batches, concatenated, are the feeder's ordering with the dropped samples
\* removed.
C1_AllSurvivorsBatched ==
    EpochEnded => YieldedIds = SurvivorIds(fed)

\* C1 (amended): at every moment the concatenation of the yielded batches is
\* a prefix of the feeder's ordering with the dropped samples removed; once
\* the epoch has ended the feeder's ordering is the whole data set, bucket
\* after bucket, and the concatenation is that ordering without the dropped
\* samples and without a final group of fewer than minimum_batch_size
\* samples, which the assembler discards.
C1_OrderPreserved ==
    /\ IsPrefix(YieldedIds, SurvivorIds(fed))
    /\ EpochEnded =>
          /\ Len(fed) = NumSamples
          /\ FedByBuckets(fed, bucket_list)
          /\ YieldedIds = SubSeq(SurvivorIds(fed), 1,
                                 BatchedCount(Len(SurvivorIds(fed))))

\* Two workers, both samples survive, the second sample of the data set was
\* fed first, and the epoch has ended with both in batches.
C1_Witness ==
    /\ EpochEnded
    /\ process_num = 2
    /\ Len(YieldedIds) = 2
    /\ YieldedIds[1] = 2

(* ------------------------------- C2 ----------------------------------- *)
\* Every sample put on the sample queue so far, in put order.
Emitted == Ids(stream) \o Ids(SelectSeq(sample_queue, IsSample))

\* Number of descriptors whose turn at the barrier is over: out_order[0],
\* plus the one of a worker that has emitted and not yet stored the counter.
TurnsTaken ==
    out_order + Cardinality({w \in Procs : w_pc[w] \in {"incr", "write"}})

\* C2: a worker that has left the spin loop holds the sequence number equal
\* to out_order[0] until it has stored the counter, and the samples put on
\* the sample queue are the survivors among the first descriptors fed, in
\* sequence-number order; the fan-in yields them in that order.
C2_OrderedEmission ==
    /\ \A w \in Procs :
          w_pc[w] \in {"emit", "incr", "write"} => w_ins[w].order_id = out_order
    /\ TurnsTaken <= Len(fed)
    /\ Emitted = SurvivorIds(SubSeq(fed, 1, TurnsTaken))
    /\ \A i \in 1..Len(sample_info_queue) :
          sample_info_queue[i].kind = "info" =>
              /\ sample_info_queue[i].order_id < Len(fed)
              /\ fed[sample_info_queue[i].order_id + 1] = sample_info_queue[i].sample
    /\ \A w \in Procs :
          w_ins[w].kind = "info" => fed[w_ins[w].order_id + 1] = w_ins[w].sample

\* A worker has finished decoding sequence number 1 and spins while the
\* worker holding sequence number 0 has put its sample and not yet advanced
\* the counter.
C2_Witness ==
    /\ \E w \in Procs : w_pc[w] = "spin" /\ w_ins[w].order_id = 1
    /\ out_order = 0
    /\ Len(Emitted) = 1

(* ------------------------------- C3 ----------------------------------- *)
\* The fan-in loop of _sample_generator has ended.
FanInFinished == asm_pc \in {"join", "put_last", "put_end", "done", "dead"}

\* C3: when the fan-in has finished, yielded plus dropped samples are all
\* the descriptors of the data set, no sample was yielded twice, and nothing
\* is left in a queue or in a worker.
C3_Complete ==
    FanInFinished =>
        /\ Len(stream) + dropped = Len(fed)
        /\ Len(fed) = NumSamples
        /\ Range(Ids(fed)) = Samples
        /\ Cardinality(Range(Ids(stream))) = Len(stream)
        /\ sample_queue = <<>>
        /\ sample_info_queue = <<>>
        /\ \A w \in Procs : w_ins[w] = NoIns /\ w_pc[w] \in {"off", "done"}

\* Two workers, one sample dropped and one yielded, fan-in finished.
C3_Witness ==
    /\ FanInFinished
    /\ process_num = 2
    /\ dropped = 1
    /\ Len(stream) = 1


(* ------------------------------- C4 ----------------------------------- *)
\* Every worker of the epoch has returned.
WorkersDone == \A w \in Procs : w_pc[w] \in {"off", "done"}

\* C4: when no task fails and scheduling is fair, no worker spins at the
\* barrier for ever (the spin loop is only left with out_order[0] equal to
\* the worker's sequence number), and a started epoch eventually has every
\* worker terminated, the fan-in finished and the consumer loop ended.
C4_Progress ==
    /\ \A w \in Procs : []<>(w_pc[w] # "spin")
    /\ (cons_pc = "running") ~> (WorkersDone /\ FanInFinished)
    /\ (cons_pc = "running") ~> EpochEnded

\* A worker spins on a sequence number that is not yet due while both the
\* descriptor queue and the sample queue are full.
C4_Witness ==
    /\ \E w \in Procs : w_pc[w] = "spin" /\ w_ins[w].order_id # out_order
    /\ Len(sample_info_queue) = sample_info_buffer_size
    /\ Len(sample_queue) = sample_buffer_size

(* ------------------------------- C5 ----------------------------------- *)
\* batch_assembling_task has returned, normally or by an exception.
AsmReturned == asm_pc \in {"done", "dead", "dead_iter"}

\* EpochEndSignals put on the batch queue so far in this epoch.
BatchEndsPut ==
    (IF EpochEnded THEN 1 ELSE 0)
    + Len(SelectSeq(batch_queue, LAMBDA b : b.kind = "end"))

\* C5 as stated: when the assembler has returned it has put exactly one
\* EpochEndSignal on the batch queue, after every batch of the epoch.
C5_OneEpochEndSignal ==
    AsmReturned =>
        /\ BatchEndsPut = 1
        /\ batch_queue # <<>> => Last(batch_queue).kind = "end"

(* ------------------------------- C6 ----------------------------------- *)
\* The assembler is past the test of the remainder.
PastFlush == asm_pc \in {"put_last", "put_end", "done", "dead"}

\* Every batch converted so far, in order: yielded, queued, or being put.
AllBatches ==
    SelectSeq(yielded \o batch_queue, IsBatch)
    \o (IF asm_pc \in {"put", "put_last"} THEN <<asm_batch>> ELSE <<>>)

\* C6 as stated: after the end of the stream, a pending list of at least
\* minimum_batch_size samples has been flushed as the final batch, and a
\* shorter one has produced no batch.
C6_RemainderFlushed ==
    PastFlush =>
        IF Len(batch_samples) >= minimum_batch_size
          THEN /\ AllBatches # <<>>
               /\ Last(AllBatches).samples = batch_samples
               /\ BatchSamples(AllBatches) = stream
          ELSE BatchSamples(AllBatches) \o batch_samples = stream

(* ------------------------------- C7 ----------------------------------- *)
\* The batches put on the batch queue in this epoch.
PutBatches == SelectSeq(yielded \o batch_queue, IsBatch)

LodOf(b) == lists[b.lod]

\* C7: the lod of every batch put on the batch queue starts at 0, is
\* non-decreasing, has one entry more than the batch has samples, steps by
\* each sample's frame count, and ends at the row count of both buffers; it
\* stays so while later batches are assembled.
C7_BatchShape ==
    \A k \in 1..Len(PutBatches) :
        LET b == PutBatches[k]
            l == LodOf(b)
        IN  /\ l[1] = 0
            /\ Len(l) - 1 = Len(b.samples)
            /\ \A i \in 1..(Len(l) - 1) :
                  /\ l[i] <= l[i + 1]
                  /\ l[i + 1] - l[i] = b.samples[i].shape0
            /\ b.feature_rows = Last(l)
            /\ b.label_rows = Last(l)

\* Two batches have been yielded: the second was assembled after the first
\* was put.
C7_Witness ==
    /\ Len(yielded) = 2
    /\ LodOf(yielded[1]) # LodOf(yielded[2])

(* ------------------------------- C8 ----------------------------------- *)
\* C8: no sample of more than drop_frame_len frames is on the sample queue,
\* in the sample stream or in a batch; when the fan-in has finished, every
\* sample of exactly drop_frame_len frames has been yielded by it.
C8_DropPolicy ==
    /\ \A i \in 1..Len(sample_queue) :
          IsSample(sample_queue[i]) => sample_queue[i].shape0 <= drop_frame_len
    /\ \A i \in 1..Len(stream) : stream[i].shape0 <= drop_frame_len
    /\ \A k \in 1..Len(AllBatches) : \A i \in 1..Len(AllBatches[k].samples) :
          AllBatches[k].samples[i].shape0 <= drop_frame_len
    /\ FanInFinished =>
          \A i \in 1..Len(fed) :
              fed[i].feature_frame_num = drop_frame_len =>
                  fed[i].id \in Range(Ids(stream))

\* The fan-in has finished an epoch in which one sample was longer than
\* drop_frame_len and another exactly as long.
C8_Witness ==
    /\ FanInFinished
    /\ \E i \in 1..Len(fed) : fed[i].feature_frame_num > drop_frame_len
    /\ \E i \in 1..Len(stream) : stream[i].shape0 = drop_frame_len

(* ------------------------------- C9 ----------------------------------- *)
\* A background task has ended by an exception.
TaskFailed ==
    \/ feed_pc = "dead"
    \/ \E w \in Procs : w_pc[w] = "dead"
    \/ asm_pc \in {"dead", "dead_iter"}

\* C9 as stated: after a background task has failed the epoch still ends;
\* the pipeline is never at rest with the consumer loop still polling.
C9_TruncatedEpochEnds ==
    TaskFailed => (EpochEnded \/ ENABLED Next)

(* ------------------------------- C10 ---------------------------------- *)
\* C10 as stated: starting a further epoch shuffles the block list again.
C10_BlocksReshuffled ==
    [][(cons_pc = "done" /\ cons_pc' = "running")
          => block_shuffles' = block_shuffles + 1]_vars

(* ------------------------------- C11 ---------------------------------- *)
\* C11 as stated: an error in a description file (header counts that
\* disagree, a data line with too few fields) is never raised inside the
\* feeding task: generate_sample_info_list never fails there.
C11_IndexErrorsAtSetup ==
    feed_pc # "dead"

(* ------------------------------- C12 ---------------------------------- *)
\* The workers that hold a descriptor or the sample decoded from it.
Holding == {w \in Procs : w_ins[w].kind = "info"}

\* C12: each queue holds at most its capacity, only the process_num workers
\* of the epoch hold a result (one each, between get and put), so the items
\* in the queues and in the workers are at most the three capacities plus
\* process_num.
C12_BoundedBuffers ==
    /\ Len(sample_info_queue) <= sample_info_buffer_size
    /\ Len(sample_queue) <= sample_buffer_size
    /\ Len(batch_queue) <= batch_buffer_size
    /\ Holding \subseteq 1..process_num
    /\ \A w \in Procs : w_pc[w] \in {"spin", "emit", "incr", "write"} => w \in Holding
    /\ Len(sample_info_queue) + Len(sample_queue) + Len(batch_queue)
          + Cardinality(Holding)
          <= sample_info_buffer_size + sample_buffer_size + batch_buffer_size
             + process_num

\* The three queues are full and a worker holding a decoded sample waits for
\* room in the sample queue.
C12_Witness ==
    /\ Len(sample_info_queue) = sample_info_buffer_size
    /\ Len(sample_queue) = sample_buffer_size
    /\ Len(batch_queue) = batch_buffer_size
    /\ \E w \in Holding : w_pc[w] = "emit"

(* ------------------------------- C13 ---------------------------------- *)
RECURSIVE Flatten(_)
Flatten(qs) == IF qs = <<>> THEN <<>> ELSE Head(qs) \o Flatten(Tail(qs))

\* generate_bucket_list has run on the block list.
Grouped == bucket_list # <<>> \/ block_info_list = <<>>

\* C13: the buckets, concatenated in order, are the block list (itself a
\* reordering of the blocks of the list files, each block once); every bucket
\* but the last holds exactly shuffle_block_num blocks and the last between
\* one and shuffle_block_num.
C13_BucketsPartition ==
    Grouped =>
        /\ Flatten(bucket_list) = block_info_list
        /\ Range(block_info_list) = 1..Len(block_info_list)
        /\ \A i \in 1..Len(bucket_list) :
              IF i < Len(bucket_list)
                THEN Len(bucket_list[i]) = shuffle_block_num
                ELSE Len(bucket_list[i]) \in 1..shuffle_block_num

\* Three blocks, shuffled out of the order of the list files, grouped by
\* two: a full bucket and a last bucket of one block.
C13_Witness ==
    /\ Len(block_info_list) = 3
    /\ block_info_list # ManifestOf(3)
    /\ Len(bucket_list) = 2
    /\ Len(bucket_list[1]) = 2
    /\ Len(bucket_list[2]) = 1

(* ------------------------------- C14 ---------------------------------- *)
\* Number of whole groups of batch_size samples the fan-in has yielded.
FullGroups == Len(stream) \div batch_size

\* C14: the k-th batch converted inside the loop holds exactly the k-th
\* group of batch_size samples of the stream, in arrival order; between
\* batches the pending list holds the samples after the last whole group,
\* fewer than batch_size of them, and right after a batch is put it is empty
\* and lod is [0].
C14_FullBatches ==
    batch_size > 0 =>
        /\ \A k \in 1..Len(AllBatches) :
              k <= FullGroups =>
                  AllBatches[k].samples =
                      SubSeq(stream, (k - 1) * batch_size + 1, k * batch_size)
        /\ asm_pc \in {"iter", "join"} =>
              /\ Len(AllBatches) = FullGroups
              /\ batch_samples =
                    SubSeq(stream, FullGroups * batch_size + 1, Len(stream))
              /\ Len(batch_samples) < batch_size
              /\ batch_samples = <<>> => lists[lod] = <<0>>
        /\ asm_pc = "put" =>
              /\ Len(AllBatches) = FullGroups
              /\ Len(stream) = FullGroups * batch_size
              /\ batch_samples = asm_batch.samples

\* Two batches of one sample each have been put inside the loop; the
\* assembler is back at the head of the loop with nothing pending.
C14_Witness ==
    /\ batch_size = 1
    /\ asm_pc = "iter"
    /\ Len(AllBatches) = 2
    /\ AllBatches[1].samples # AllBatches[2].samples
    /\ batch_samples = <<>>

(* ------------------------------- C15 ---------------------------------- *)
\* The queue item carries the sequence number of its descriptor's place in
\* the feeder's ordering: the i-th descriptor put carries i - 1.
SeqNumRight(item) ==
    /\ item.order_id < Len(fed)
    /\ fed[item.order_id + 1] = item.sample

\* C15: self._order_id is the number of descriptors put so far (less one
\* between a put and its increment); every descriptor, on the queue or taken
\* by a worker, carries the number of descriptors put before it, so the
\* numbers put are 0, 1, 2, ... in put order, through every bucket; no
\* descriptor is put twice.
C15_ContiguousSeqNums ==
    /\ feed_pc # "off" =>
          order_id = Len(fed) - (IF feed_pc = "incr" THEN 1 ELSE 0)
    /\ \A i \in 1..Len(sample_info_queue) :
          sample_info_queue[i].kind = "info" => SeqNumRight(sample_info_queue[i])
    /\ \A i, j \in 1..Len(sample_info_queue) :
          (i < j /\ sample_info_queue[j].kind = "info") =>
              /\ sample_info_queue[i].kind = "info"
              /\ sample_info_queue[j].order_id = sample_info_queue[i].order_id + (j - i)
    /\ \A w \in Procs : w_ins[w].kind = "info" => SeqNumRight(w_ins[w])
    /\ Cardinality(Range(Ids(fed))) = Len(fed)

\* The feeder has just put the first descriptor of the second bucket, with
\* sequence number 1, and has not yet advanced the counter.
C15_Witness ==
    /\ Len(bucket_list) = 2
    /\ feed_bucket = 2
    /\ feed_pc = "incr"
    /\ sample_info_queue # <<>>
    /\ Last(sample_info_queue).kind = "info"
    /\ Last(sample_info_queue).order_id = 1

(* ------------------------------- C16 ---------------------------------- *)
IsEnd(x) == x.kind = "end"

\* The workers that have taken an EpochEndSignal from the descriptor queue.
Signalled == {w \in Procs : w_pc[w] \in {"put_end", "done"}}

\* C16: the feeder puts at most process_num EpochEndSignals, exactly
\* process_num when it returns, all after the last descriptor of the data
\* set; each signal put is on the descriptor queue or was taken by a worker
\* that takes nothing else afterwards, so no worker takes two; a worker that
\* took one leaves no descriptor behind it on the queue; each returned
\* worker has put exactly one signal on the sample queue; the fan-in loop
\* goes on below process_num signals and ends at exactly process_num.
C16_SentinelProtocol ==
    /\ feed_end <= process_num
    /\ feed_pc = "done" => feed_end = process_num
    /\ feed_end > 0 => (feed_pc \in {"end", "done"} /\ Len(fed) = NumSamples)
    /\ \A i, j \in 1..Len(sample_info_queue) :
          (i < j /\ IsEnd(sample_info_queue[i])) => IsEnd(sample_info_queue[j])
    /\ feed_end = Len(SelectSeq(sample_info_queue, IsEnd)) + Cardinality(Signalled)
    /\ Signalled # {} => \A i \in 1..Len(sample_info_queue) : IsEnd(sample_info_queue[i])
    /\ Cardinality({w \in Procs : w_pc[w] = "done"})
          = Len(SelectSeq(sample_queue, IsEnd)) + finished_process_num
    /\ asm_pc \in {"iter", "put", "dead_iter"} => finished_process_num < process_num
    /\ FanInFinished => finished_process_num = process_num

\* Two workers: one has taken its EpochEndSignal and returned while the other
\* still holds the last descriptor at the barrier's exit; the second signal
\* waits on the descriptor queue.
C16_Witness ==
    /\ process_num = 2
    /\ \E w \in Procs : w_pc[w] = "done"
    /\ \E w \in Procs : w_pc[w] = "emit"
    /\ sample_info_queue = <<EpochEndSignal>>
    /\ feed_pc = "done"

(* ------------------------------- C17 ---------------------------------- *)
\* The workers inside `out_order[0] += 1`, before its store.
Advancing == {w \in Procs : w_pc[w] \in {"incr", "write"}}

\* Every descriptor past the drop test has advanced the counter by one or is
\* about to; the value a worker read for the increment is still the
\* counter's value when it stores; when every worker has returned the
\* counter is the number of descriptors fed, the whole data set.
CounterExact ==
    /\ out_order + Cardinality(Advancing) = Len(Emitted) + dropped
    /\ \A w \in Procs : w_pc[w] = "write" => w_tmp[w] = out_order
    /\ out_order <= Len(fed)
    /\ (cons_pc # "idle" /\ WorkersDone) =>
          (out_order = Len(fed) /\ Len(fed) = NumSamples)

\* C17: out_order[0] counts the descriptors processed, enqueued or dropped
\* alike, no increment is lost, and within an epoch each change of the
\* counter is a step up by exactly one.
C17_CounterAdvances ==
    /\ []CounterExact
    /\ [][cons_pc' = cons_pc =>
             (out_order' = out_order \/ out_order' = out_order + 1)]_vars

\* Two workers have returned after an epoch in which one sample was dropped
\* and one put, and the counter stands at two.
C17_Witness ==
    /\ process_num = 2
    /\ cons_pc = "running"
    /\ WorkersDone
    /\ dropped = 1
    /\ Len(Emitted) = 1
    /\ out_order = 2

(* ------------------------------- C18 ---------------------------------- *)
\* Worker w has left its loop by an exception: it still holds the descriptor
\* it was working on and is nowhere in the loop body.
Exited(w) ==
    /\ w_ins[w].kind = "info"
    /\ w_pc[w] \notin {"spin", "emit", "incr", "write"}

SomeWorkerRaised == \E w \in Procs : Exited(w)

\* While a worker has exited by an exception, that worker has put no
\* EpochEndSignal, the signals put are fewer than process_num, the fan-in loop
\* has not ended and the consumer loop is still running.
RaisedBlocksFanIn ==
    SomeWorkerRaised =>
        /\ \A w \in Procs : Exited(w) => w_pc[w] \notin {"put_end", "done"}
        /\ Len(SelectSeq(sample_queue, IsEnd)) + finished_process_num
              <= process_num - Cardinality({w \in Procs : Exited(w)})
        /\ finished_process_num < process_num
        /\ ~FanInFinished
        /\ cons_pc = "running"

\* C18: once a worker has raised while holding a descriptor, every later
\* state is one in which a worker has raised, and in none of them has the
\* fan-in counted process_num EpochEndSignals.
C18_RaisedWorkerBlocks ==
    /\ []RaisedBlocksFanIn
    /\ [][SomeWorkerRaised => SomeWorkerRaised']_vars

\* Two workers: one raised on its descriptor, the other has returned and the
\* fan-in has counted its EpochEndSignal; every queue is empty and the fan-in
\* waits in sample_queue.get().
C18_Witness ==
    /\ process_num = 2
    /\ \E w \in Procs : w_pc[w] = "dead"
    /\ \E w \in Procs : w_pc[w] = "done"
    /\ finished_process_num = 1
    /\ sample_queue = <<>>
    /\ sample_info_queue = <<>>
    /\ asm_pc = "iter"

(* ------------------------------- C19 ---------------------------------- *)
\* The workers between the exit of the spin loop and the end of
\* `out_order[0] += 1`.
InTurn == {w \in Procs : w_pc[w] \in {"emit", "incr", "write"}}

\* The sequence numbers of the descriptors on the queue and in the workers.
LiveSeqNums ==
    [i \in 1..Len(sample_info_queue) |-> sample_info_queue[i]]
    \o [w \in Procs |-> w_ins[w]]

\* C19: at most one worker is past the spin loop and before the end of its
\* increment, and its order_id is the current value of out_order[0], so the
\* store to out_order[0] is made by that worker alone; no two descriptors,
\* held by workers or still queued, carry the same order_id.
C19_BarrierExclusion ==
    /\ Cardinality(InTurn) <= 1
    /\ \A w \in InTurn : w_ins[w].kind = "info" /\ w_ins[w].order_id = out_order
    /\ \A w \in Procs : w_pc[w] = "spin" => w_ins[w].order_id >= out_order
    /\ \A i, j \in 1..Len(LiveSeqNums) :
          (i # j /\ LiveSeqNums[i].kind = "info" /\ LiveSeqNums[j].kind = "info")
              => LiveSeqNums[i].order_id # LiveSeqNums[j].order_id

\* One worker is about to store the counter for sequence number 0 while the
\* other, holding sequence number 1, spins.
C19_Witness ==
    /\ \E w \in Procs : w_pc[w] = "write" /\ w_ins[w].order_id = 0
    /\ \E w \in Procs : w_pc[w] = "spin" /\ w_ins[w].order_id = 1
    /\ out_order = 0

(* ------------------------------- C20 ---------------------------------- *)
\* Sequence number k is carried by a descriptor on the queue or in a worker.
Live(k) ==
    \E i \in 1..Len(LiveSeqNums) :
        LiveSeqNums[i].kind = "info" /\ LiveSeqNums[i].order_id = k

\* C20 as stated: also when the feeding thread of a dropped call is still
\* running, the descriptors of the current call carry 0, 1, 2, ... in put
\* order, and every sequence number a spinning worker waits behind is held
\* by a worker or is still on the queue, so the barrier opens for it.
C20_EpochIsolation ==
    /\ \A i \in 1..Len(LiveSeqNums) :
          LiveSeqNums[i].kind = "info" => SeqNumRight(LiveSeqNums[i])
    /\ \A w \in Procs :
          w_pc[w] = "spin" =>
              \A k \in out_order..(w_ins[w].order_id - 1) : Live(k)

====
